---- MODULE Spec2Model ----
(***************************************************************************)
(* Model of the H&M global price tracker: the price text parser and the    *)
(* category scraper (src/src/hm_scraper.py), the currency normalizer       *)
(* (src/src/currency_converter.py), the store schema (src/src/database.py) *)
(* and the collector (src/src/collect_data.py).                            *)
(*                                                                         *)
(* Texts are sequences of one-character strings.  Amounts are exact        *)
(* decimals [neg, mant, frac] standing for (-1)^neg * mant / 10^frac; the  *)
(* binary rounding of Python floats is not modelled.                       *)
(***************************************************************************)
EXTENDS Integers, Sequences, FiniteSets, TLC

VARIABLES
    price_text,     \* argument of the _extract_price call under study
    parsed,         \* what that call returned
    parse_pc,       \* "call" before the call, "done" after it
    conv_amount,    \* convert_to_usd: the amount argument
    conv_currency,  \* convert_to_usd: the currency argument
    conv_lookup,    \* what self.c.get_rate does when it is called
    conv_out,       \* what convert_to_usd returned
    conv_pc,        \* "call" before the call, "done" after it
    get_rate_calls, \* number of get_rate calls made so far
    log,            \* set of messages the code has logged or printed
    db_ready,       \* the two tables exist (init_db has run)
    products,       \* committed products table: article_code -> [name, category]
    prices,         \* committed prices table, in id order
    lock,           \* task whose connection holds the database write lock, 0 if none
    abandoned_lock, \* a connection left open by a failed save_data holds the lock
    tasks,          \* the save_data callers of this run
    pc,             \* per task: position inside save_data
    data_list,      \* per task: the argument of its save_data call
    idx,            \* per task: index of the item the for loop is at
    tx_products,    \* per task: products rows inserted but not committed
    tx_prices,      \* per task: prices rows inserted but not committed
    items_submitted,\* number of items handed to save_data so far
    scraper,        \* the HMScraper object: [exists, region_code, currency, base_url]
    stats,          \* its stats dict
    ctor_arg,       \* region_code of the last HMScraper(...) call
    ctor_raised,    \* that call raised ValueError
    sc_calls,       \* number of scrape_category calls made so far
    call_budget,    \* number of scrape_category calls the caller makes
    sc_page,        \* the page the last scrape_category call was served
    sc_env,         \* what the browser did during that call
    sc_max,         \* max_products of that call
    sc_result,      \* the list that call returned
    sc_raised,      \* that call raised instead of returning
    launches,       \* browsers launched so far
    closes,         \* browser.close() calls so far
    open_browsers,  \* launched browsers still running after the last call ended
    returned_total, \* records returned by all calls so far
    main_pc,        \* position inside collect_data.main
    main_i          \* index in target_regions of the region main is at

parseVars == <<price_text, parsed, parse_pc>>
convVars == <<conv_amount, conv_currency, conv_lookup, conv_out, conv_pc>>
storeVars == <<db_ready, products, prices, lock, abandoned_lock, tasks, pc, data_list, idx,
               tx_products, tx_prices, items_submitted>>
scrapeVars == <<scraper, stats, ctor_arg, ctor_raised, sc_calls, call_budget, sc_page, sc_env, sc_max,
                sc_result, sc_raised, launches, closes, open_browsers, returned_total>>
mainVars == <<main_pc, main_i>>
vars == <<parseVars, convVars, get_rate_calls, log, storeVars, scrapeVars, mainVars>>

-----------------------------------------------------------------------------
(* Bounds *)

\* longest generated separator/digit text
MaxTextLen == 5

\* most items handed to save_data over a run
MaxRows == 3

\* most product elements on a served page
MaxCands == 2

\* calls of scrape_category on one scraper
MaxCalls == 3

-----------------------------------------------------------------------------
(* Python values *)

\* Python None for a float-or-None result
NoneVal == [isNone |-> TRUE, neg |-> FALSE, mant |-> 0, frac |-> 0]

Float(neg, mant, frac) == [isNone |-> FALSE, neg |-> neg, mant |-> mant, frac |-> frac]

\* Python None for a str-or-None argument
NoneText == [isNone |-> TRUE, s |-> <<>>]

Txt(s) == [isNone |-> FALSE, s |-> s]

Pow10(n) == IF n = 0 THEN 1
            ELSE IF n = 1 THEN 10
            ELSE IF n = 2 THEN 100
            ELSE IF n = 3 THEN 1000
            ELSE IF n = 4 THEN 10000
            ELSE IF n = 5 THEN 100000
            ELSE IF n = 6 THEN 1000000
            ELSE IF n = 7 THEN 10000000
            ELSE 100000000

\* signed numerator of a value over the denominator 10^frac
Num(v) == IF v.neg THEN 0 - v.mant ELSE v.mant

\* a > b on floats
Gt(a, b) == Num(a) * Pow10(b.frac) > Num(b) * Pow10(a.frac)

\* truthiness of a float-or-None: None and 0.0 are falsy
Truthy(v) == ~v.isNone /\ v.mant # 0

\* round(n / d) for d > 0, ties to even
RoundDiv(n, d) ==
    LET q == n \div d
        r == n % d
    IN  IF 2 * r < d THEN q
        ELSE IF 2 * r > d THEN q + 1
        ELSE IF q % 2 = 0 THEN q ELSE q + 1

\* amount x 100, rounded: the minor units of a parsed amount
MinorUnits(v) == RoundDiv(Num(v) * 100, Pow10(v.frac))

-----------------------------------------------------------------------------
(* str methods used by _extract_price *)

Digits == {"0", "1", "2", "3", "4", "5", "6", "7", "8", "9"}

DigitVal(c) == CASE c = "0" -> 0 [] c = "1" -> 1 [] c = "2" -> 2 [] c = "3" -> 3
                 [] c = "4" -> 4 [] c = "5" -> 5 [] c = "6" -> 6 [] c = "7" -> 7
                 [] c = "8" -> 8 [] c = "9" -> 9

IsSpace(c) == c = " "

RECURSIVE LStrip(_)
LStrip(s) == IF s # <<>> /\ IsSpace(Head(s)) THEN LStrip(Tail(s)) ELSE s

RECURSIVE RStrip(_)
RStrip(s) == IF s # <<>> /\ IsSpace(s[Len(s)]) THEN RStrip(SubSeq(s, 1, Len(s) - 1)) ELSE s

\* str.strip()
Strip(s) == RStrip(LStrip(s))

StartsWith(s, tok) == Len(s) >= Len(tok) /\ SubSeq(s, 1, Len(tok)) = tok

\* str.replace(old, new): every non-overlapping occurrence, left to right
RECURSIVE Replace(_, _, _)
Replace(s, old, new) ==
    IF s = <<>> THEN <<>>
    ELSE IF StartsWith(s, old) THEN new \o Replace(SubSeq(s, Len(old) + 1, Len(s)), old, new)
    ELSE <<Head(s)>> \o Replace(Tail(s), old, new)

\* c in s
Contains(s, c) == \E i \in 1..Len(s) : s[i] = c

\* the digits of s read as a decimal integer
RECURSIVE DigitsValue(_)
DigitsValue(s) == IF s = <<>> THEN 0
                  ELSE DigitsValue(SubSeq(s, 1, Len(s) - 1)) * 10 + DigitVal(s[Len(s)])

AllDigits(s) == \A i \in 1..Len(s) : s[i] \in Digits

\* float(s): surrounding whitespace is ignored, then an optional sign and
\* digits with at most one '.', at least one digit; anything else raises
\* ValueError (NoneVal stands for the raise).  Exponents, "inf", "nan" and
\* '_' grouping are outside the alphabet of the modelled texts.
ParseFloat(s) ==
    LET t    == Strip(s)
        sign == t # <<>> /\ Head(t) \in {"-", "+"}
        body == IF sign THEN Tail(t) ELSE t
        dots == {i \in 1..Len(body) : body[i] = "."}
        ip   == IF dots = {} THEN body
                ELSE SubSeq(body, 1, (CHOOSE i \in dots : TRUE) - 1)
        fp   == IF dots = {} THEN <<>>
                ELSE SubSeq(body, (CHOOSE i \in dots : TRUE) + 1, Len(body))
    IN  IF Cardinality(dots) <= 1 /\ AllDigits(ip) /\ AllDigits(fp) /\ Len(ip) + Len(fp) >= 1
        THEN Float(sign /\ Head(t) = "-", DigitsValue(ip \o fp), Len(fp))
        ELSE NoneVal

-----------------------------------------------------------------------------
(* HMScraper._extract_price *)

LIRA == "<lira>"
POUND == "<pound>"
EURO == "<euro>"

\* lines 106-110: strip, drop currency symbols and words, strip
CleanCurrency(s) ==
    LET c1 == Strip(s)
        c2 == Replace(Replace(c1, <<"T", "L">>, <<>>), <<LIRA>>, <<>>)
        c3 == Replace(Replace(Replace(c2, <<"$">>, <<>>), <<POUND>>, <<>>), <<EURO>>, <<>>)
        c4 == Replace(Replace(c3, <<"S", "E", "K">>, <<>>), <<"k", "r">>, <<>>)
    IN  Strip(c4)

\* lines 114-121: the separator branches
NormalizeSeparators(cleaned) ==
    IF Contains(cleaned, ",") /\ Contains(cleaned, ".")
    THEN Replace(Replace(cleaned, <<".">>, <<>>), <<",">>, <<".">>)
    ELSE IF Contains(cleaned, ",")
    THEN Replace(cleaned, <<",">>, <<".">>)
    ELSE Replace(cleaned, <<",">>, <<>>)

_extract_price(text) ==
    IF text.isNone \/ text.s = <<>> THEN NoneVal
    ELSE ParseFloat(NormalizeSeparators(CleanCurrency(text.s)))

-----------------------------------------------------------------------------
(* Specification of the parser: one call on a text drawn from PriceTexts *)

SepAlphabet == {"1", "9", ".", ","}

\* the formats named in the docstring and comments of _extract_price
DocumentedTexts == {
    <<"2", "9", "9", ",", "9", "9", " ", "T", "L">>,
    <<"$", "2", "9", ".", "9", "9">>,
    <<POUND, "2", "9", ".", "9", "9">>,
    <<"2", "9", ",", "9", "9", " ", EURO>>,
    <<"1", ".", "2", "9", "9", ",", "9", "9">>,
    <<"2", "9", "9", ",", "9", "9">>,
    <<"1", ",", "2", "9", "9", ".", "9", "9">>,
    <<"2", "9", "9", " ", "k", "r">>,
    <<"-", "5", ".", "0", "0">>,
    <<"S", "o", "l", "d">>,
    <<" ">> }

PriceTexts ==
    {NoneText} \cup {Txt(<<>>)} \cup {Txt(s) : s \in DocumentedTexts}
    \cup {Txt(s) : s \in UNION {[1..n -> SepAlphabet] : n \in 1..MaxTextLen}}

ParseIdle == /\ price_text = NoneText
             /\ parsed = NoneVal
             /\ parse_pc = "idle"

ParseInit == /\ price_text \in PriceTexts
             /\ parsed = NoneVal
             /\ parse_pc = "call"

ExtractPrice ==
    /\ parse_pc = "call"
    /\ parsed' = _extract_price(price_text)
    /\ parse_pc' = "done"
    /\ IF price_text.isNone \/ price_text.s = <<>> \/ ~_extract_price(price_text).isNone
       THEN log' = log
       ELSE log' = log \cup {"Failed to parse price"}
    /\ UNCHANGED <<price_text, convVars, get_rate_calls, storeVars, scrapeVars, mainVars>>

-----------------------------------------------------------------------------
(* CurrencyConverter *)

\* a Python number: ty is "int" or "float", value (-1)^neg * mant / 10^frac
PyInt(n) == [kind |-> "num", ty |-> "int", neg |-> n < 0, mant |-> IF n < 0 THEN 0 - n ELSE n, frac |-> 0]

PyFloat(neg, mant, frac) == [kind |-> "num", ty |-> "float", neg |-> neg, mant |-> mant, frac |-> frac]

\* a Python str result (int * str repeats the str)
PyStr == [kind |-> "str", ty |-> "str", neg |-> FALSE, mant |-> 0, frac |-> 0]

\* self.fallback_rates, lines 8-14
fallback_rates ==
    [c \in {"TRY", "EUR", "GBP", "SEK", "USD"} |->
        CASE c = "TRY" -> PyFloat(FALSE, 28, 3)
          [] c = "EUR" -> PyFloat(FALSE, 108, 2)
          [] c = "GBP" -> PyFloat(FALSE, 126, 2)
          [] c = "SEK" -> PyFloat(FALSE, 96, 3)
          [] c = "USD" -> PyFloat(FALSE, 10, 1)]

\* self.fallback_rates.get(currency, 0)
FallbackRate(currency) ==
    IF currency \in DOMAIN fallback_rates THEN fallback_rates[currency] ELSE PyInt(0)

\* a * b on two Python numbers
NumMul(a, b) ==
    [kind |-> "num",
     ty   |-> IF a.ty = "int" /\ b.ty = "int" THEN "int" ELSE "float",
     neg  |-> (a.neg # b.neg) /\ a.mant * b.mant # 0,
     mant |-> a.mant * b.mant,
     frac |-> a.frac + b.frac]

\* the outcomes of self.c.get_rate(currency, 'USD'): a numeric rate, an
\* exception (network error, timeout, rates not available), or a response
\* that is not a number (None, a str)
LookupOutcomes ==
    {[kind |-> "rate", rate |-> r] : r \in {PyFloat(FALSE, 29, 3), PyFloat(FALSE, 1085, 3)}}
    \cup {[kind |-> k, rate |-> PyInt(0)] : k \in {"raise", "timeout", "none", "str"}}

\* amount * rate at line 22 raises TypeError for a None rate, and for a str
\* rate unless amount is an int (then the str is repeated)
MulRaises(amount, lookup) ==
    \/ lookup.kind = "none"
    \/ lookup.kind = "str" /\ amount.ty # "int"

\* convert_to_usd without the USD shortcut of lines 17-18
convert_to_usd_always_looks_up(amount, currency, lookup) ==
    IF lookup.kind \in {"raise", "timeout"} \/ MulRaises(amount, lookup)
    THEN [ret |-> NumMul(amount, FallbackRate(currency)), rate_calls |-> 1]
    ELSE IF lookup.kind = "str"
    THEN [ret |-> PyStr, rate_calls |-> 1]
    ELSE [ret |-> NumMul(amount, lookup.rate), rate_calls |-> 1]

\* convert_to_usd(amount, currency) when get_rate behaves as lookup:
\* ret is the value returned, rate_calls the number of get_rate calls
convert_to_usd(amount, currency, lookup) ==
    IF currency = "USD"
    THEN [ret |-> amount, rate_calls |-> 0]
    ELSE IF lookup.kind \in {"raise", "timeout"} \/ MulRaises(amount, lookup)
    THEN [ret |-> NumMul(amount, FallbackRate(currency)), rate_calls |-> 1]
    ELSE IF lookup.kind = "str"
    THEN [ret |-> PyStr, rate_calls |-> 1]
    ELSE [ret |-> NumMul(amount, lookup.rate), rate_calls |-> 1]

-----------------------------------------------------------------------------
(* Specification of the normalizer: calls with every argument combination *)

\* ISO codes of the region catalog, and two codes outside the fallback table
Currencies == {"TRY", "EUR", "GBP", "SEK", "USD", "JPY", "XXX"}

Amounts == {PyFloat(FALSE, 2999, 2), PyFloat(FALSE, 129999, 2), PyFloat(FALSE, 0, 1),
            PyFloat(TRUE, 500, 2), PyInt(3), PyInt(0), PyInt(40)}

ConvIdle == /\ conv_amount = PyInt(0)
            /\ conv_currency = "USD"
            /\ conv_lookup = [kind |-> "raise", rate |-> PyInt(0)]
            /\ conv_out = PyInt(0)
            /\ conv_pc = "idle"
            /\ get_rate_calls = 0

ConvInit == /\ conv_amount \in Amounts
            /\ conv_currency \in Currencies
            /\ conv_lookup \in LookupOutcomes
            /\ conv_out = PyInt(0)
            /\ conv_pc = "call"
            /\ get_rate_calls = 0

ConvertToUsd ==
    /\ conv_pc = "call"
    /\ LET r == convert_to_usd(conv_amount, conv_currency, conv_lookup)
       IN  /\ conv_out' = r.ret
           /\ get_rate_calls' = get_rate_calls + r.rate_calls
    /\ conv_pc' = "done"
    /\ UNCHANGED <<conv_amount, conv_currency, conv_lookup, parseVars, log, storeVars,
                   scrapeVars, mainVars>>

-----------------------------------------------------------------------------
(* The store: database.py's schema and collect_data.save_data *)

AllTasks == {1, 2}

ProductNames == {"Dress", "Elbise"}

\* region and currency of an item
ItemRegions == {[region |-> "tr", currency |-> "TRY"], [region |-> "us", currency |-> "USD"]}

Item(c, n, r) == [article_code |-> c, name |-> n, region |-> r.region,
                  currency |-> r.currency, price |-> PyFloat(FALSE, 2999, 2)]

\* one article under both names and in both regions, and a second article
Items == {Item("0970819001", n, r) : n \in ProductNames, r \in ItemRegions}
         \cup {Item("1024256002", "Dress", r) : r \in {rr \in ItemRegions : rr.region = "tr"}}

\* main hands save_data only non-empty lists (line 40)
DataLists == UNION {[1..n -> Items] : n \in 1..MaxRows}

\* get_rate outcomes while saving: a live rate or a failed lookup
StoreLookups == {[kind |-> "rate", rate |-> PyFloat(FALSE, 29, 3)],
                 [kind |-> "raise", rate |-> PyInt(0)]}

NoProducts == [c \in {} |-> [name |-> "", category |-> ""]]

\* INSERT OR REPLACE in place of INSERT OR IGNORE
InsertOrReplace(seen, tx, item) ==
    [c \in DOMAIN tx \cup {item.article_code} |->
        IF c = item.article_code THEN [name |-> item.name, category |-> "Dresses"]
        ELSE tx[c]]

\* INSERT OR IGNORE INTO products: article_code is the PRIMARY KEY, a row
\* whose key exists is ignored
InsertOrIgnore(seen, tx, item) ==
    IF item.article_code \in seen \cup DOMAIN tx THEN tx
    ELSE [c \in DOMAIN tx \cup {item.article_code} |->
            IF c = item.article_code THEN [name |-> item.name, category |-> "Dresses"]
            ELSE tx[c]]

\* the row of INSERT INTO prices; id is the AUTOINCREMENT key
PriceRow(id, item, usd_price) ==
    [id |-> id, article_code |-> item.article_code, region |-> item.region,
     price_original |-> item.price, currency |-> item.currency, price_in_usd |-> usd_price]

\* an upsert keyed by (article_code, region) in place of the plain INSERT
InsertPriceMerging(tx, id, item, usd_price) ==
    IF \E i \in 1..Len(tx) : tx[i].article_code = item.article_code /\ tx[i].region = item.region
    THEN [i \in 1..Len(tx) |->
            IF tx[i].article_code = item.article_code /\ tx[i].region = item.region
            THEN PriceRow(tx[i].id, item, usd_price) ELSE tx[i]]
    ELSE Append(tx, PriceRow(id, item, usd_price))

\* INSERT INTO prices: a new row at the end of the connection's pending rows
InsertPrice(tx, id, item, usd_price) == Append(tx, PriceRow(id, item, usd_price))

\* conn.commit(): the pending rows become part of the tables
CommitProducts(committed, tx) ==
    [c \in DOMAIN committed \cup DOMAIN tx |->
        IF c \in DOMAIN tx THEN tx[c] ELSE committed[c]]

StoreIdle == /\ db_ready = FALSE
             /\ products = NoProducts
             /\ prices = <<>>
             /\ lock = 0
             /\ abandoned_lock = FALSE
             /\ tasks = {}
             /\ pc = [k \in AllTasks |-> "idle"]
             /\ data_list = [k \in AllTasks |-> <<>>]
             /\ idx = [k \in AllTasks |-> 0]
             /\ tx_products = [k \in AllTasks |-> NoProducts]
             /\ tx_prices = [k \in AllTasks |-> <<>>]
             /\ items_submitted = 0

\* database.init_db: CREATE TABLE IF NOT EXISTS, existing rows are kept
init_db ==
    /\ db_ready' = TRUE
    /\ log' = log \cup {"Database initialized"}
    /\ UNCHANGED <<products, prices, lock, abandoned_lock, tasks, pc, data_list, idx,
                   tx_products, tx_prices, items_submitted>>

\* python database.py: init_db() on a store without tables
InitDb ==
    /\ ~db_ready
    /\ init_db
    /\ UNCHANGED <<parseVars, convVars, get_rate_calls, scrapeVars, mainVars>>

\* save_data lines 7-9: connect, cursor, converter
SaveConnect(k) ==
    /\ pc[k] \in {"idle", "done", "raised"}
    /\ \E dl \in DataLists :
          /\ items_submitted + Len(dl) <= MaxRows
          /\ data_list' = [data_list EXCEPT ![k] = dl]
          /\ items_submitted' = items_submitted + Len(dl)
    /\ pc' = [pc EXCEPT ![k] = "loop"]
    /\ idx' = [idx EXCEPT ![k] = 1]
    /\ tx_products' = [tx_products EXCEPT ![k] = NoProducts]
    /\ tx_prices' = [tx_prices EXCEPT ![k] = <<>>]
    /\ UNCHANGED <<db_ready, products, prices, lock, abandoned_lock, tasks, parseVars,
                   convVars, get_rate_calls, log, scrapeVars, mainVars>>

\* an execute() raises: the exception leaves save_data, commit and close
\* are never reached.  The pending rows are never committed; the connection
\* stays open, and keeps the write lock it holds, until the interpreter
\* finalizes it
SaveRaise(k) ==
    /\ pc' = [pc EXCEPT ![k] = "raised"]
    /\ tx_products' = [tx_products EXCEPT ![k] = NoProducts]
    /\ tx_prices' = [tx_prices EXCEPT ![k] = <<>>]
    /\ lock' = IF lock = k THEN 0 ELSE lock
    /\ abandoned_lock' = (abandoned_lock \/ lock = k)

\* an execute() can succeed only with the tables present and the write
\* lock free or already held by this connection; otherwise it raises
\* OperationalError (no such table, database is locked)
CanWrite(k) == db_ready /\ lock \in {0, k} /\ ~abandoned_lock

\* the interpreter finalizes the connection a failed save_data left open:
\* its transaction is rolled back and its lock released
FinalizeAbandoned ==
    /\ abandoned_lock
    /\ abandoned_lock' = FALSE
    /\ UNCHANGED <<db_ready, products, prices, lock, tasks, pc, data_list, idx, tx_products,
                   tx_prices, items_submitted, parseVars, convVars, get_rate_calls, log,
                   scrapeVars, mainVars>>

\* save_data lines 11-16: INSERT OR IGNORE INTO products
SaveInsertProduct(k) ==
    /\ pc[k] = "loop"
    /\ idx[k] <= Len(data_list[k])
    /\ \/ /\ CanWrite(k)
          /\ lock' = k
          /\ tx_products' = [tx_products EXCEPT
                 ![k] = InsertOrIgnore(DOMAIN products, tx_products[k], data_list[k][idx[k]])]
          /\ pc' = [pc EXCEPT ![k] = "price"]
          /\ UNCHANGED <<tx_prices, abandoned_lock>>
       \/ SaveRaise(k)
    /\ UNCHANGED <<db_ready, products, prices, tasks, data_list, idx, items_submitted,
                   parseVars, convVars, get_rate_calls, log, scrapeVars, mainVars>>

\* save_data lines 18-25: convert the price, INSERT INTO prices
SaveInsertPrice(k) ==
    /\ pc[k] = "price"
    /\ \E lk \in StoreLookups :
         LET item == data_list[k][idx[k]]
             conv == convert_to_usd(item.price, item.currency, lk)
         IN  /\ get_rate_calls' = get_rate_calls + conv.rate_calls
             /\ \/ /\ CanWrite(k)
                   /\ lock' = k
                   /\ tx_prices' = [tx_prices EXCEPT ![k] =
                          InsertPrice(@, Len(prices) + Len(@) + 1, item, conv.ret)]
                   /\ pc' = [pc EXCEPT ![k] = "loop"]
                   /\ idx' = [idx EXCEPT ![k] = @ + 1]
                   /\ UNCHANGED <<tx_products, abandoned_lock>>
                \/ /\ SaveRaise(k)
                   /\ UNCHANGED idx
    /\ UNCHANGED <<db_ready, products, prices, tasks, data_list, items_submitted,
                   parseVars, convVars, log, scrapeVars, mainVars>>

\* save_data lines 27-29: commit, close, print
SaveCommit(k) ==
    /\ pc[k] = "loop"
    /\ idx[k] > Len(data_list[k])
    /\ products' = CommitProducts(products, tx_products[k])
    /\ prices' = prices \o tx_prices[k]
    /\ tx_products' = [tx_products EXCEPT ![k] = NoProducts]
    /\ tx_prices' = [tx_prices EXCEPT ![k] = <<>>]
    /\ lock' = IF lock = k THEN 0 ELSE lock
    /\ pc' = [pc EXCEPT ![k] = "done"]
    /\ log' = log \cup {"Saved items to database"}
    /\ UNCHANGED <<db_ready, abandoned_lock, tasks, data_list, idx, items_submitted,
                   parseVars, convVars, get_rate_calls, scrapeVars, mainVars>>

-----------------------------------------------------------------------------
(* HMScraper: the region catalog and the constructor *)

\* HMScraper.REGIONS, lines 22-53
REGIONS ==
    [r \in {"tr", "us", "uk", "de", "se"} |->
        CASE r = "tr" -> [name |-> "Turkey", base_url |-> "https://www2.hm.com/tr_tr",
                          currency |-> "TRY", language |-> "tr_tr"]
          [] r = "us" -> [name |-> "United States", base_url |-> "https://www2.hm.com/en_us",
                          currency |-> "USD", language |-> "en_us"]
          [] r = "uk" -> [name |-> "United Kingdom", base_url |-> "https://www2.hm.com/en_gb",
                          currency |-> "GBP", language |-> "en_gb"]
          [] r = "de" -> [name |-> "Germany", base_url |-> "https://www2.hm.com/de_de",
                          currency |-> "EUR", language |-> "de_de"]
          [] r = "se" -> [name |-> "Sweden", base_url |-> "https://www2.hm.com/sv_se",
                          currency |-> "SEK", language |-> "sv_se"]]

\* HMScraper.CATEGORIES, lines 56-62
CATEGORIES ==
    [r \in {"tr", "us", "uk", "de", "se"} |->
        CASE r = "tr" -> "/kadin/urunler/elbiseler.html"
          [] r = "us" -> "/women/products/dresses.html"
          [] r = "uk" -> "/ladies/products/dresses.html"
          [] r = "de" -> "/damen/produkte/kleider.html"
          [] r = "se" -> "/dam/produkter/klanningar.html"]

\* the methods class HMScraper defines
HMScraperMethods == {"__init__", "_extract_price", "scrape_category", "print_stats"}

\* collect_data.main line 36
target_regions == <<"tr", "us", "de", "gb">>

\* region codes a caller may pass: the catalog keys, main's codes, a typo
RegionCodeArgs == {"tr", "us", "uk", "de", "se", "gb", "fr"}

NoScraper == [exists |-> FALSE, region_code |-> "", currency |-> "", base_url |-> ""]

ZeroStats == [requests |-> 0, successes |-> 0, failures |-> 0, products_found |-> 0]

\* HMScraper.__init__(region_code): ValueError for a code outside REGIONS,
\* raised before any attribute is set
HMScraper_init(region_code) ==
    /\ ctor_arg' = region_code
    /\ IF region_code \notin DOMAIN REGIONS
       THEN /\ ctor_raised' = TRUE
            /\ UNCHANGED <<scraper, stats>>
       ELSE /\ ctor_raised' = FALSE
            /\ scraper' = [exists |-> TRUE, region_code |-> region_code,
                           currency |-> REGIONS[region_code].currency,
                           base_url |-> REGIONS[region_code].base_url]
            /\ stats' = ZeroStats

\* a caller constructs its scraper, again after a ValueError
Construct ==
    /\ ~scraper.exists
    /\ \E rc \in RegionCodeArgs : HMScraper_init(rc)
    /\ UNCHANGED <<sc_calls, call_budget, sc_page, sc_env, sc_max, sc_result, sc_raised,
                   launches, closes, open_browsers, returned_total, parseVars, convVars,
                   get_rate_calls, log, storeVars,
                   mainVars>>

-----------------------------------------------------------------------------
(* HMScraper.scrape_category *)

\* lines 226-229 and 240: the discount in hundredths of a percent,
\* round(((original - price) / original) * 100, 2)
Discount(price, original) ==
    IF Truthy(original) /\ Truthy(price) /\ Gt(original, price)
    THEN LET m == IF original.frac > price.frac THEN original.frac ELSE price.frac
             o == Num(original) * Pow10(m - original.frac)
             p == Num(price) * Pow10(m - price.frac)
         IN  IF o > 0 THEN RoundDiv((o - p) * 10000, o) ELSE RoundDiv((p - o) * 10000, 0 - o)
    ELSE 0

\* lines 201-203: data-articlecode of the nested article, else of the item
ProductCode(c) == IF c.article_code # "" THEN c.article_code ELSE c.item_code

\* line 214: inner_text().strip() of the price element, None without one
PriceTextOf(c) == IF c.price_text.isNone THEN NoneText ELSE Txt(Strip(c.price_text.s))

\* lines 221-224
OriginalPriceOf(c) == IF c.original_text.isNone THEN NoneVal ELSE _extract_price(c.original_text)

\* lines 194-250, one pass of the loop body: does the candidate yield a record
Emits(c) == ~c.raises /\ ProductCode(c) # "" /\ Truthy(_extract_price(PriceTextOf(c)))

\* lines 234-244: the record appended for a candidate that passed the checks
ProductRecord(c, sc, category_path) ==
    LET price == _extract_price(PriceTextOf(c))
        original_price == OriginalPriceOf(c)
    IN  [product_code |-> ProductCode(c),
         product_name |-> IF c.has_name THEN c.name ELSE "Unknown Product",
         product_url |-> <<sc.base_url, category_path>>,
         price_local |-> price,
         original_price_local |-> original_price,
         discount_percentage |-> Discount(price, original_price),
         currency |-> sc.currency,
         region_code |-> sc.region_code,
         in_stock |-> TRUE]

\* the loop with break in place of continue: it ends at the first element
\* that yields no record
RECURSIVE ExtractUntilSkip(_, _, _)
ExtractUntilSkip(elements, sc, category_path) ==
    IF elements = <<>> \/ ~Emits(Head(elements)) THEN <<>>
    ELSE <<ProductRecord(Head(elements), sc, category_path)>>
         \o ExtractUntilSkip(Tail(elements), sc, category_path)

\* lines 193-250: the loop over the elements
RECURSIVE ExtractAll(_, _, _)
ExtractAll(elements, sc, category_path) ==
    IF elements = <<>> THEN <<>>
    ELSE (IF Emits(Head(elements)) THEN <<ProductRecord(Head(elements), sc, category_path)>> ELSE <<>>)
         \o ExtractAll(Tail(elements), sc, category_path)

\* _extract_price logs a warning (line 126) when float() raises
WarnsOn(text) == ~text.isNone /\ text.s # <<>> /\ _extract_price(text).isNone

\* some element of the loop reaches a price text that fails to parse
ParseWarns(elements) ==
    \E i \in 1..Len(elements) :
        LET c == elements[i]
        IN  /\ ~c.raises
            /\ ProductCode(c) # ""
            /\ \/ WarnsOn(PriceTextOf(c))
               \/ Truthy(_extract_price(PriceTextOf(c))) /\ WarnsOn(c.original_text)

\* elements[:] in place of elements[:n]
TakeAll(elements, n) == elements

\* elements[:n]
Take(elements, n) == SubSeq(elements, 1, IF n < Len(elements) THEN n ELSE Len(elements))

\* line 170: wait_for_selector('li.product-item, article.hm-product-item')
\* can only succeed on a page that has such an element
GridSelectorMatches(page) == page.li # <<>> \/ page.article # <<>>

\* lines 181-188: the selector chain
product_elements(page) ==
    IF page.li # <<>> THEN page.li
    ELSE IF page.article # <<>> THEN page.article
    ELSE page.attr

\* what the browser does during one call
ScrapeEnvs == {"launch_fail", "context_fail", "page_fail", "goto_fail", "grid_timeout",
               "dom_fail", "ok"}

\* the outcomes in which page.goto returned, so that a page was loaded
PageLoadedEnvs == {"grid_timeout", "dom_fail", "ok"}

\* the failure the call runs into, "none" when it reaches line 252
FailureOf(page, env) ==
    IF env = "ok" /\ ~GridSelectorMatches(page) THEN "grid_timeout"
    ELSE IF env = "ok" THEN "none" ELSE env

\* a Playwright scope whose exit does not stop the driver: the browsers that
\* were running keep running
sync_playwright_exit_keeps_browsers(running) == running

\* line 147: leaving the `with sync_playwright()` block, by return or by
\* exception, stops the Playwright driver, and the driver closes every browser
\* it launched that is still running
sync_playwright_exit(running) == 0

\* scrape_category(category_path, max_products) on a page, as one step
scrape_category(page, env, max_products) ==
    LET f    == FailureOf(page, env)
        path == CATEGORIES[scraper.region_code]
        out  == ExtractAll(Take(product_elements(page), max_products), scraper, path)
        warn == IF f = "none" /\ ParseWarns(Take(product_elements(page), max_products))
                THEN {"Failed to parse price"} ELSE {}
    IN  /\ sc_page' = page
        /\ sc_env' = env
        /\ sc_max' = max_products
        /\ sc_calls' = sc_calls + 1
        /\ CASE f = "launch_fail" ->
                 \* line 149 raises outside the try
                 /\ sc_raised' = TRUE
                 /\ sc_result' = <<>>
                 /\ log' = log \cup {"Launching browser"}
                 /\ open_browsers' = sync_playwright_exit(open_browsers)
                 /\ UNCHANGED <<stats, launches, closes, returned_total>>
             [] f \in {"context_fail", "page_fail"} ->
                 \* lines 155, 161 raise outside the try: no except, no finally
                 /\ sc_raised' = TRUE
                 /\ sc_result' = <<>>
                 /\ launches' = launches + 1
                 /\ log' = log \cup {"Launching browser"}
                 /\ open_browsers' = sync_playwright_exit(open_browsers + 1)
                 /\ UNCHANGED <<stats, closes, returned_total>>
             [] f = "grid_timeout" ->
                 \* lines 171-174
                 /\ sc_raised' = FALSE
                 /\ sc_result' = <<>>
                 /\ stats' = [stats EXCEPT !.requests = @ + 1, !.failures = @ + 1]
                 /\ launches' = launches + 1
                 /\ closes' = closes + 1
                 /\ log' = log \cup {"Launching browser", "Timeout waiting for products"}
                 /\ open_browsers' = sync_playwright_exit(open_browsers + 1 - 1)
                 /\ returned_total' = returned_total
             [] f \in {"goto_fail", "dom_fail"} ->
                 \* lines 255-257
                 /\ sc_raised' = FALSE
                 /\ sc_result' = <<>>
                 /\ stats' = [stats EXCEPT !.requests = @ + 1, !.failures = @ + 1]
                 /\ launches' = launches + 1
                 /\ closes' = closes + 1
                 /\ log' = log \cup {"Launching browser", "Error during scraping"}
                 /\ open_browsers' = sync_playwright_exit(open_browsers + 1 - 1)
                 /\ returned_total' = returned_total
             [] f = "none" ->
                 /\ sc_raised' = FALSE
                 /\ sc_result' = out
                 /\ stats' = [stats EXCEPT !.requests = @ + 1, !.successes = @ + 1,
                                            !.products_found = @ + Len(out)]
                 /\ launches' = launches + 1
                 /\ closes' = closes + 1
                 /\ log' = log \cup {"Launching browser", "Successfully scraped"} \cup warn
                 /\ open_browsers' = sync_playwright_exit(open_browsers + 1 - 1)
                 /\ returned_total' = returned_total + Len(out)

-----------------------------------------------------------------------------
(* The pages served to scrape_category *)

T_30 == Txt(<<"$", "3", "0", ".", "0", "0">>)
T_40 == Txt(<<"$", "4", "0", ".", "0", "0">>)
T_20 == Txt(<<"2", "0", ",", "0", "0", " ", EURO>>)
T_neg5 == Txt(<<"-", "5", ".", "0", "0">>)
T_neg1 == Txt(<<"-", "1", ".", "0", "0">>)
T_sold == Txt(<<"S", "o", "l", "d">>)
T_zero == Txt(<<"0", ",", "0", "0">>)

Cand(raises, acode, icode, has_name, ptext, otext) ==
    [raises |-> raises, article_code |-> acode, item_code |-> icode,
     has_name |-> has_name, name |-> IF has_name THEN "Dress" ELSE "",
     price_text |-> ptext, original_text |-> otext]

\* price text and original price text of the candidates with code and name
PricePairs == {<<T_30, NoneText>>, <<T_30, T_40>>, <<T_30, T_20>>,
               <<T_neg5, T_40>>, <<T_neg5, T_neg1>>, <<NoneText, NoneText>>,
               <<T_sold, T_40>>, <<T_zero, T_40>>}

Candidates ==
    {Cand(FALSE, "0970819001", "", TRUE, pp[1], pp[2]) : pp \in PricePairs}
    \cup {Cand(FALSE, "", "1024256002", TRUE, T_30, T_40),
          Cand(FALSE, "", "", TRUE, T_30, T_40),
          Cand(FALSE, "0970819001", "", FALSE, T_30, NoneText),
          Cand(TRUE, "0970819001", "", TRUE, T_30, NoneText)}

CandLists == UNION {[1..n -> Candidates] : n \in 1..MaxCands}

NoPage == [li |-> <<>>, article |-> <<>>, attr |-> <<>>]

\* a page has its product elements under one of the three markups, or none
Pages ==
    {NoPage}
    \cup {[li |-> cs, article |-> <<>>, attr |-> <<>>] : cs \in CandLists}
    \cup {[li |-> <<>>, article |-> cs, attr |-> <<>>] : cs \in CandLists}
    \cup {[li |-> <<>>, article |-> <<>>, attr |-> cs] : cs \in CandLists}

\* max_products of a call: 1 cuts a page short, 30 is the default
MaxProductsArgs == {1, 30}

ScrapeIdle == /\ scraper = NoScraper
              /\ stats = ZeroStats
              /\ ctor_arg = ""
              /\ ctor_raised = FALSE
              /\ sc_calls = 0
              /\ call_budget = 0
              /\ sc_page = NoPage
              /\ sc_env = "ok"
              /\ sc_max = 0
              /\ sc_result = <<>>
              /\ sc_raised = FALSE
              /\ launches = 0
              /\ closes = 0
              /\ open_browsers = 0
              /\ returned_total = 0

\* a caller scrapes a category page with the scraper it constructed
ScrapeCategory ==
    /\ scraper.exists
    /\ sc_calls < call_budget
    /\ \E env \in ScrapeEnvs, mp \in MaxProductsArgs :
         \E page \in IF env \in PageLoadedEnvs THEN Pages ELSE {NoPage} :
           scrape_category(page, env, mp)
    /\ UNCHANGED <<scraper, ctor_arg, ctor_raised, call_budget, parseVars, convVars, get_rate_calls,
                   storeVars, mainVars>>

\* the category pages a scraper that is called again and again is served
CategoryPages ==
    {NoPage,
     [li |-> <<Cand(FALSE, "0970819001", "", TRUE, T_30, T_40),
               Cand(FALSE, "", "1024256002", TRUE, T_30, T_40)>>,
      article |-> <<>>, attr |-> <<>>],
     [li |-> <<>>,
      article |-> <<Cand(FALSE, "0970819001", "", TRUE, T_sold, T_40),
                    Cand(FALSE, "0970819001", "", TRUE, T_30, NoneText)>>,
      attr |-> <<>>],
     [li |-> <<Cand(TRUE, "0970819001", "", TRUE, T_30, NoneText)>>,
      article |-> <<>>, attr |-> <<>>],
     [li |-> <<>>, article |-> <<>>,
      attr |-> <<Cand(FALSE, "0970819001", "", TRUE, T_30, T_40)>>]}

\* one more call of scrape_category on the same scraper
ScrapeCategoryAgain ==
    /\ scraper.exists
    /\ sc_calls < call_budget
    /\ \E env \in ScrapeEnvs, mp \in MaxProductsArgs :
         \E page \in IF env \in PageLoadedEnvs THEN CategoryPages ELSE {NoPage} :
           scrape_category(page, env, mp)
    /\ UNCHANGED <<scraper, ctor_arg, ctor_raised, call_budget, parseVars, convVars, get_rate_calls,
                   storeVars, mainVars>>

-----------------------------------------------------------------------------
(* collect_data.main *)

MainIdle == /\ main_pc = "idle"
            /\ main_i = 0

\* line 32: init_db()
MainInitDb ==
    /\ main_pc = "start"
    /\ init_db
    /\ main_pc' = "construct"
    /\ UNCHANGED <<main_i, parseVars, convVars, get_rate_calls, scrapeVars>>

\* line 33: scraper = HMScraper(), region_code defaults to 'tr'
MainConstruct ==
    /\ main_pc = "construct"
    /\ HMScraper_init("tr")
    /\ main_pc' = "loop"
    /\ main_i' = 1
    /\ UNCHANGED <<sc_calls, call_budget, sc_page, sc_env, sc_max, sc_result, sc_raised,
                   launches, closes, open_browsers, returned_total, parseVars, convVars,
                   get_rate_calls, log, storeVars>>

\* line 39: scraper.scrape_region(region); HMScraper defines no such method,
\* the attribute lookup raises AttributeError and nothing in main catches it
MainScrapeRegion ==
    /\ main_pc = "loop"
    /\ main_i <= Len(target_regions)
    /\ "scrape_region" \notin HMScraperMethods
    /\ main_pc' = "raised"
    /\ UNCHANGED <<main_i, parseVars, convVars, get_rate_calls, log, storeVars, scrapeVars>>

-----------------------------------------------------------------------------
(* Specifications *)

\* the parser on one text
InitParse == ParseInit /\ ConvIdle /\ StoreIdle /\ ScrapeIdle /\ MainIdle /\ log = {}

NextParse == ExtractPrice

SpecParse == InitParse /\ [][NextParse]_vars

\* the normalizer on one argument combination
InitConvert == ParseIdle /\ ConvInit /\ StoreIdle /\ ScrapeIdle /\ MainIdle /\ log = {}

NextConvert == ConvertToUsd

SpecConvert == InitConvert /\ [][NextConvert]_vars

\* a caller that constructs a scraper and scrapes one category page
Init == /\ ParseIdle /\ ConvIdle /\ StoreIdle /\ MainIdle /\ log = {}
        /\ scraper = NoScraper
        /\ stats = ZeroStats
        /\ ctor_arg = ""
        /\ ctor_raised = FALSE
        /\ sc_calls = 0
        /\ call_budget = 1
        /\ sc_page = NoPage
        /\ sc_env = "ok"
        /\ sc_max = 0
        /\ sc_result = <<>>
        /\ sc_raised = FALSE
        /\ launches = 0
        /\ closes = 0
        /\ open_browsers = 0
        /\ returned_total = 0

Next == \/ Construct
        \/ ScrapeCategory

\* save_data called with the data of one region after another
InitStore == /\ ParseIdle /\ ConvIdle /\ ScrapeIdle /\ log = {}
             /\ db_ready = FALSE
             /\ products = NoProducts
             /\ prices = <<>>
             /\ lock = 0
             /\ abandoned_lock = FALSE
             /\ tasks = {1}
             /\ pc = [k \in AllTasks |-> "idle"]
             /\ data_list = [k \in AllTasks |-> <<>>]
             /\ idx = [k \in AllTasks |-> 0]
             /\ tx_products = [k \in AllTasks |-> NoProducts]
             /\ tx_prices = [k \in AllTasks |-> <<>>]
             /\ items_submitted = 0
             /\ MainIdle

NextStore == \/ InitDb
             \/ FinalizeAbandoned
             \/ \E k \in tasks : SaveConnect(k)
             \/ \E k \in tasks : SaveInsertProduct(k)
             \/ \E k \in tasks : SaveInsertPrice(k)
             \/ \E k \in tasks : SaveCommit(k)

SpecStore == InitStore /\ [][NextStore]_vars

\* a region task opens its connection for the one batch it saves
TaskConnect(k) == pc[k] = "idle" /\ SaveConnect(k)

\* the execute() calls of a region task on a healthy store: one raises only
\* when it cannot get the write lock (database is locked)
TaskInsertProduct(k) == SaveInsertProduct(k) /\ (pc'[k] = "raised" => ~CanWrite(k))

TaskInsertPrice(k) == SaveInsertPrice(k) /\ (pc'[k] = "raised" => ~CanWrite(k))

\* two region tasks call save_data at the same time on an initialized store,
\* each on its own connection
InitTasks == /\ ParseIdle /\ ConvIdle /\ ScrapeIdle /\ MainIdle /\ log = {}
             /\ db_ready = TRUE
             /\ products = NoProducts
             /\ prices = <<>>
             /\ lock = 0
             /\ abandoned_lock = FALSE
             /\ tasks = AllTasks
             /\ pc = [k \in AllTasks |-> "idle"]
             /\ data_list = [k \in AllTasks |-> <<>>]
             /\ idx = [k \in AllTasks |-> 0]
             /\ tx_products = [k \in AllTasks |-> NoProducts]
             /\ tx_prices = [k \in AllTasks |-> <<>>]
             /\ items_submitted = 0

NextTasks == \/ \E k \in tasks : TaskConnect(k)
             \/ \E k \in tasks : TaskInsertProduct(k)
             \/ \E k \in tasks : TaskInsertPrice(k)
             \/ \E k \in tasks : SaveCommit(k)

SpecTasks == InitTasks /\ [][NextTasks]_vars

\* the products table after save_data has committed the items of dl
RECURSIVE ProductsAfter(_)
ProductsAfter(dl) ==
    IF dl = <<>> THEN NoProducts
    ELSE InsertOrIgnore({}, ProductsAfter(SubSeq(dl, 1, Len(dl) - 1)), dl[Len(dl)])

\* the prices table after save_data has committed the items of dl offline
PricesAfter(dl) ==
    [i \in 1..Len(dl) |->
        PriceRow(i, dl[i],
                 convert_to_usd(dl[i].price, dl[i].currency,
                                [kind |-> "raise", rate |-> PyInt(0)]).ret)]

\* main started on the store that earlier runs left behind
InitMain == /\ ParseIdle /\ ConvIdle /\ ScrapeIdle /\ log = {}
            /\ \E dl \in DataLists \cup {<<>>} :
                  /\ products = ProductsAfter(dl)
                  /\ prices = PricesAfter(dl)
                  /\ db_ready = (dl # <<>>)
            /\ lock = 0
            /\ abandoned_lock = FALSE
            /\ tasks = {}
            /\ pc = [k \in AllTasks |-> "idle"]
            /\ data_list = [k \in AllTasks |-> <<>>]
            /\ idx = [k \in AllTasks |-> 0]
            /\ tx_products = [k \in AllTasks |-> NoProducts]
            /\ tx_prices = [k \in AllTasks |-> <<>>]
            /\ items_submitted = 0
            /\ main_pc = "start"
            /\ main_i = 0

NextMain == \/ MainInitDb
            \/ MainConstruct
            \/ MainScrapeRegion

SpecMain == InitMain /\ [][NextMain]_vars

Spec == Init /\ [][Next]_vars

\* a caller that constructs a scraper and calls scrape_category several times
InitCalls == /\ ParseIdle /\ ConvIdle /\ StoreIdle /\ MainIdle /\ log = {}
             /\ scraper = NoScraper
             /\ stats = ZeroStats
             /\ ctor_arg = ""
             /\ ctor_raised = FALSE
             /\ sc_calls = 0
             /\ call_budget = MaxCalls
             /\ sc_page = NoPage
             /\ sc_env = "ok"
             /\ sc_max = 0
             /\ sc_result = <<>>
             /\ sc_raised = FALSE
             /\ launches = 0
             /\ closes = 0
             /\ open_browsers = 0
             /\ returned_total = 0

NextCalls == \/ Construct
             \/ ScrapeCategoryAgain

SpecCalls == InitCalls /\ [][NextCalls]_vars

-----------------------------------------------------------------------------
(* Price text parser *)

\* the separator rule as documented: of '.' and ',' the kind that occurs
\* rightmost is the decimal separator, the other kind is dropped
RightmostIsDecimal(cleaned) ==
    LET seps == {i \in 1..Len(cleaned) : cleaned[i] \in {".", ","}}
        last == CHOOSE i \in seps : \A j \in seps : j <= i
        dec  == cleaned[last]
        oth  == IF dec = "." THEN "," ELSE "."
    IN  Replace(Replace(cleaned, <<oth>>, <<>>), <<dec>>, <<".">>)

HasBothSeparators(text) ==
    ~text.isNone /\ Contains(text.s, ".") /\ Contains(text.s, ",")

\* C1: an accepted text with both '.' and ',' is read with its rightmost
\* separator as the decimal point and the other separator dropped, and
\* "1.299,99", "1,299.99", "299,99", "$29.99" give 129999, 129999, 29999
\* and 2999 minor units.
C1_RightmostSeparatorIsDecimal ==
    parse_pc = "done" =>
        /\ (HasBothSeparators(price_text) /\ ~parsed.isNone) =>
               parsed = ParseFloat(RightmostIsDecimal(CleanCurrency(price_text.s)))
        /\ price_text = Txt(<<"1", ".", "2", "9", "9", ",", "9", "9">>) =>
               ~parsed.isNone /\ MinorUnits(parsed) = 129999
        /\ price_text = Txt(<<"1", ",", "2", "9", "9", ".", "9", "9">>) =>
               ~parsed.isNone /\ MinorUnits(parsed) = 129999
        /\ price_text = Txt(<<"2", "9", "9", ",", "9", "9">>) =>
               ~parsed.isNone /\ MinorUnits(parsed) = 29999
        /\ price_text = Txt(<<"$", "2", "9", ".", "9", "9">>) =>
               ~parsed.isNone /\ MinorUnits(parsed) = 2999

-----------------------------------------------------------------------------
(* Currency normalizer *)

LookupFailed(lookup) == lookup.kind # "rate"

\* C2: convert_to_usd returns a number for every amount, currency and
\* lookup outcome; after a failed lookup the number is amount x the static
\* fallback rate, and for a currency outside the fallback table it is 0 and
\* the degraded result is flagged.
C2_AlwaysNumericFallbackFlagged ==
    (conv_pc = "done" /\ conv_currency # "USD") =>
        /\ conv_out.kind = "num"
        /\ LookupFailed(conv_lookup) =>
               conv_out = NumMul(conv_amount, FallbackRate(conv_currency))
        /\ (LookupFailed(conv_lookup) /\ conv_currency \notin DOMAIN fallback_rates) =>
               conv_out.mant = 0 /\ "Currency lookup degraded" \in log

\* C3: a USD amount comes back as the very same amount and get_rate is
\* not called.
C3_UsdIdentityWithoutLookup ==
    (conv_pc = "done" /\ conv_currency = "USD") =>
        conv_out = conv_amount /\ get_rate_calls = 0

\* a USD amount other than zero has been converted
C3_Witness ==
    conv_pc = "done" /\ conv_currency = "USD" /\ conv_amount.mant # 0 /\ conv_out.mant # 0

-----------------------------------------------------------------------------
(* Store *)

\* the task whose save_data commits in this step
Commits(k) == pc[k] = "loop" /\ pc'[k] = "done"

HasCode(dl, c) == \E i \in 1..Len(dl) : dl[i].article_code = c

\* the first item of dl that carries article code c
FirstWithCode(dl, c) ==
    dl[CHOOSE i \in 1..Len(dl) :
          /\ dl[i].article_code = c
          /\ \A j \in 1..(i - 1) : dl[j].article_code # c]

ProductsStep ==
    /\ \A c \in DOMAIN products : c \in DOMAIN products' /\ products'[c] = products[c]
    /\ \A c \in DOMAIN products' \ DOMAIN products :
          \E k \in tasks :
             /\ Commits(k)
             /\ HasCode(data_list[k], c)
             /\ products'[c] = [name |-> FirstWithCode(data_list[k], c).name,
                                category |-> "Dresses"]

\* C4: a products row, once stored, is never changed or deleted, and a new
\* row holds the name of the first item saved with that article code and
\* the category 'Dresses'.
C4_ProductInsertIfAbsent == [][ProductsStep]_vars

\* a one-item batch was committed whose name differs from the name stored
\* for its article code by an earlier save
C4_Witness ==
    \E k \in tasks :
       /\ pc[k] = "done"
       /\ Len(data_list[k]) = 1
       /\ data_list[k][1].article_code \in DOMAIN products
       /\ products[data_list[k][1].article_code].name # data_list[k][1].name

\* row is the prices row of item under the given id
RowOfItem(row, id, item) ==
    /\ row.id = id
    /\ row.article_code = item.article_code
    /\ row.region = item.region
    /\ row.price_original = item.price
    /\ row.currency = item.currency

PricesStep ==
    /\ Len(prices') >= Len(prices)
    /\ SubSeq(prices', 1, Len(prices)) = prices
    /\ \A k \in tasks : Commits(k) =>
          /\ Len(prices') = Len(prices) + Len(data_list[k])
          /\ \A i \in 1..Len(data_list[k]) :
                RowOfItem(prices'[Len(prices) + i], Len(prices) + i, data_list[k][i])
    /\ (\A k \in tasks : ~Commits(k)) => prices' = prices

\* C5: a committed save_data call appends exactly one prices row per item,
\* in item order, whatever rows exist already, and no step changes or
\* removes an existing prices row.
C5_PricesAppendOnly == [][PricesStep]_vars

\* the store holds two observations of one (article_code, region), and one
\* article code observed in two regions with a single products row
C5_Witness ==
    /\ \E i, j \in 1..Len(prices) :
          /\ i < j
          /\ prices[i].article_code = prices[j].article_code
          /\ prices[i].region = prices[j].region
    /\ \E i, j \in 1..Len(prices) :
          /\ prices[i].article_code = prices[j].article_code
          /\ prices[i].region # prices[j].region
          /\ prices[i].article_code \in DOMAIN products

\* the committed prices rows that record item
RowsOf(item) ==
    {i \in 1..Len(prices) : RowOfItem(prices[i], i, item)}

\* C6: when the insert for one item of a batch of several items fails, the
\* failure is logged and the observations of all other items of the batch
\* are stored.
C6_WriteFailureIsItemScoped ==
    \A k \in tasks : (pc[k] = "raised" /\ Len(data_list[k]) >= 2) =>
        /\ "Failed to save item" \in log
        /\ \A i \in 1..Len(data_list[k]) : i # idx[k] => RowsOf(data_list[k][i]) # {}

-----------------------------------------------------------------------------
(* Scraper and collector *)

\* C7: no failure of a fetch raises out of scrape_category; the call
\* returns an empty list and the failures counter is incremented.
C7_FetchFailureNeverRaises ==
    sc_calls = 1 =>
        /\ ~sc_raised
        /\ FailureOf(sc_page, sc_env) # "none" => sc_result = <<>> /\ stats.failures = 1

\* region codes the region catalog has to cover
SupportedRegionCodes == {"tr", "us", "uk", "gb", "de", "se"}

\* C8: a region code outside the catalog is rejected before any browser
\* launch, rate lookup or store write, and every supported region code
\* (tr, us, uk/gb, de, se) is accepted.
C8_UnknownRegionFailsFast ==
    ctor_arg # "" =>
        /\ ctor_raised => launches = 0 /\ sc_calls = 0 /\ get_rate_calls = 0 /\ prices = <<>>
        /\ ctor_arg \in SupportedRegionCodes => ~ctor_raised

\* C9: main always gets through its whole region list; no failure while
\* handling a region ends the run early.
C9_RunReachesEndOfRegionList ==
    main_pc \in {"raised", "done"} => main_i > Len(target_regions)

\* C10: the discount of every emitted record is in 0..100 percent, and it
\* is (original - current) / original x 100 when the original price is
\* present and above the current price, otherwise 0.
C10_DiscountWithinRange ==
    \A i \in 1..Len(sc_result) :
        LET r == sc_result[i]
        IN  /\ r.discount_percentage >= 0
            /\ r.discount_percentage <= 10000
            /\ (r.original_price_local.isNone \/ ~Gt(r.original_price_local, r.price_local))
                  => r.discount_percentage = 0
            /\ (MinorUnits(r.price_local) = 3000 /\ ~r.original_price_local.isNone
                  /\ MinorUnits(r.original_price_local) = 4000)
                  => r.discount_percentage = 2500

-----------------------------------------------------------------------------
(* Extraction of the candidates of a page *)

\* the product elements of the served page, in page order
PageCandidates == sc_page.li \o sc_page.article \o sc_page.attr

\* the call got as far as the extraction loop and returned
Extracted == sc_calls = 1 /\ ~sc_raised /\ stats.successes = 1

\* the article code a candidate carries, "" without one
CodeOf(c) == IF c.article_code # "" THEN c.article_code ELSE c.item_code

\* the amount the price text of a readable candidate parses to
PriceOf(c) == IF c.price_text.isNone THEN NoneVal ELSE _extract_price(c.price_text)

\* a candidate that can be read, has an article code and a parsable price text
HasCodeAndParsablePrice(c) == ~c.raises /\ CodeOf(c) # "" /\ ~PriceOf(c).isNone

\* the same with a price other than zero
HasCodeAndNonZeroPrice(c) == HasCodeAndParsablePrice(c) /\ PriceOf(c).mant # 0

\* index in cs of the j-th candidate whose index is in idxs
NthOf(idxs, j) == CHOOSE i \in idxs : Cardinality({m \in idxs : m <= i}) = j

\* result holds one record per candidate of idxs, in page order
OneRecordEach(result, cs, idxs) ==
    /\ Len(result) = Cardinality(idxs)
    /\ \A j \in 1..Len(result) :
          /\ result[j].product_code = CodeOf(cs[NthOf(idxs, j)])
          /\ result[j].product_code # ""
          /\ result[j].price_local = PriceOf(cs[NthOf(idxs, j)])
          /\ ~result[j].price_local.isNone

\* C11 as stated: of a page of n <= max_products candidates a call that
\* reaches the extraction loop returns exactly those with an article code and a parsable price text, one record
\* each in page order.
C11_EmitsCodeAndParsablePrice ==
    (Extracted /\ Len(PageCandidates) <= sc_max) =>
        OneRecordEach(sc_result, PageCandidates,
                      {i \in 1..Len(PageCandidates) : HasCodeAndParsablePrice(PageCandidates[i])})

\* C11 amended: of a page of n <= max_products candidates a call that
\* reaches the extraction loop returns exactly those with an article code and a price text that parses to an
\* amount other than zero, one record each in page order; a skipped
\* candidate does not end the extraction of those after it.
C11_EmitsCodeAndNonZeroPrice ==
    (Extracted /\ Len(PageCandidates) <= sc_max) =>
        OneRecordEach(sc_result, PageCandidates,
                      {i \in 1..Len(PageCandidates) : HasCodeAndNonZeroPrice(PageCandidates[i])})

\* a page whose first candidate is skipped and whose second is emitted
C11_Witness ==
    /\ Extracted
    /\ Len(PageCandidates) = 2
    /\ sc_max >= 2
    /\ ~HasCodeAndNonZeroPrice(PageCandidates[1])
    /\ HasCodeAndNonZeroPrice(PageCandidates[2])
    /\ Len(sc_result) = 1

-----------------------------------------------------------------------------
(* The range of the price parser *)

\* C12: the price parser returns either an amount that is not negative or
\* the failure value; a missing or empty text yields the failure value.
C12_ParserNeverNegative ==
    parse_pc = "done" =>
        /\ parsed.isNone \/ ~parsed.neg \/ parsed.mant = 0
        /\ (price_text.isNone \/ price_text.s = <<>>) => parsed.isNone

-----------------------------------------------------------------------------
(* The selector chain *)

\* the selectors in the order of the chain
SelectorChain == <<"li", "article", "attr">>

\* the elements of the first selector of the chain that matches any
FirstMatching(page) ==
    LET hits == {i \in 1..Len(SelectorChain) : page[SelectorChain[i]] # <<>>}
    IN  IF hits = {} THEN <<>>
        ELSE page[SelectorChain[CHOOSE i \in hits : \A j \in hits : i <= j]]

\* C15: on a page served by a healthy browser the candidates are those of the
\* first selector of the chain li.product-item, article.hm-product-item,
\* [data-articlecode] that matches any element; a page on which only the
\* third matches yields its products and is not counted as a failure.
C15_ThirdSelectorYieldsProducts ==
    (sc_calls = 1 /\ sc_env = "ok" /\ FirstMatching(sc_page) # <<>>) =>
        /\ ~sc_raised
        /\ stats.failures = 0
        /\ sc_result = ExtractAll(Take(FirstMatching(sc_page), sc_max), scraper,
                                  CATEGORIES[scraper.region_code])

-----------------------------------------------------------------------------
(* Release of the browser *)

\* C14: a browser launched by a scrape_category call is closed by the time
\* the call returns or raises, on every path: no call leaves a browser open.
C14_NoBrowserLeftOpen ==
    sc_calls >= 1 =>
        /\ open_browsers = 0
        /\ ~sc_raised => closes = launches

\* creating the context or the page failed after the browser was launched:
\* the call raised without reaching browser.close()
C14_Witness ==
    /\ sc_calls = 1
    /\ sc_raised
    /\ launches = 1
    /\ closes = 0
    /\ open_browsers = 0

-----------------------------------------------------------------------------
(* Run statistics *)

\* C16: over any sequence of calls on one scraper, every call that returns
\* changes requests by exactly 1 and exactly one of successes and failures
\* by 1, returns at most max_products records, and leaves
\* requests = successes + failures and products_found equal to the number of
\* records returned by all calls so far.
C16_StatsConsistent ==
    [][(sc_calls' = sc_calls + 1 /\ ~sc_raised') =>
          /\ stats'.requests = stats.requests + 1
          /\ \/ /\ stats'.successes = stats.successes + 1
                /\ stats'.failures = stats.failures
             \/ /\ stats'.successes = stats.successes
                /\ stats'.failures = stats.failures + 1
          /\ stats'.requests = stats'.successes + stats'.failures
          /\ stats'.products_found = stats.products_found + Len(sc_result')
          /\ stats'.products_found = returned_total'
          /\ Len(sc_result') <= sc_max']_vars

\* after a failed and a successful call, the last one cut short by max_products
C16_Witness ==
    /\ sc_calls >= 2
    /\ ~sc_raised
    /\ stats.failures >= 1
    /\ stats.successes >= 1
    /\ Len(PageCandidates) > sc_max
    /\ Len(sc_result) = sc_max
    /\ stats.products_found = returned_total
    /\ returned_total >= 1

-----------------------------------------------------------------------------
(* Concurrent region tasks *)

\* both batches contain the same article code
SharedCode ==
    \E i \in 1..Len(data_list[1]), j \in 1..Len(data_list[2]) :
        data_list[1][i].article_code = data_list[2][j].article_code

\* how often item occurs in the batches of both tasks
Occurrences(item) ==
    Cardinality({<<k, i>> \in AllTasks \X (1..MaxRows) :
                    i <= Len(data_list[k]) /\ data_list[k][i] = item})

\* C13: when two save_data batches that contain the same article code run
\* concurrently on a healthy store, neither fails because of the other, and
\* once both have ended the store holds one products row for every code of
\* the batches and every observation of both batches exactly once.
C13_ConcurrentBatchesBothStored ==
    (tasks = AllTasks /\ SharedCode) =>
        /\ \A k \in tasks : pc[k] # "raised"
        /\ (\A k \in tasks : pc[k] = "done") =>
              /\ Len(prices) = Len(data_list[1]) + Len(data_list[2])
              /\ \A k \in tasks : \A i \in 1..Len(data_list[k]) :
                    /\ data_list[k][i].article_code \in DOMAIN products
                    /\ Cardinality(RowsOf(data_list[k][i])) = Occurrences(data_list[k][i])

====
